---- MODULE Spec2Model ----
(***************************************************************************)
(* Model of the unified-diff patch engine of GeminiGUI,                    *)
(* app/src-tauri/src/tools/diff_operations.rs: tool_apply_diff and         *)
(* parse_hunk_header.  Text is modelled as a sequence of one-character     *)
(* strings so that str::lines, join, starts_with, split_whitespace and     *)
(* parse::<usize> are computed the way the standard library computes them. *)
(***************************************************************************)
EXTENDS Integers, Sequences, FiniteSets, TLC

\* ------------------------------------------------------------------------
\* Bounds of the checked input space
\* ------------------------------------------------------------------------
MaxContentLen == 2
MaxDiffLines == 3
MaxFileLines == 3
MaxOps == 4

\* usize::MAX, the value 0usize - 1 wraps to in a build without overflow
\* checks.  The target's usize is 64 bits wide; the model uses the largest
\* integer the checker represents, which like 2^64 - 1 exceeds every length.
UsizeMax == 2147483647

\* Option<T>: None is the empty sequence, Some(x) the one-element sequence
None == <<>>
Some(x) == <<x>>
LF == "\n"
CR == "\r"
SP == " "

\* ------------------------------------------------------------------------
\* Text primitives of the standard library
\* ------------------------------------------------------------------------
\* str::starts_with
StartsWith(s, p) == Len(s) >= Len(p) /\ SubSeq(s, 1, Len(p)) = p

\* strip_suffix('\r') applied by str::lines to a line that ended in '\n'
StripCR(l) == IF Len(l) > 0 /\ l[Len(l)] = CR THEN SubSeq(l, 1, Len(l) - 1) ELSE l

RECURSIVE SplitLines(_, _, _)
SplitLines(s, k, cur) ==
    IF k > Len(s) THEN (IF cur = <<>> THEN <<>> ELSE <<cur>>)
    ELSE IF s[k] = LF THEN <<StripCR(cur)>> \o SplitLines(s, k + 1, <<>>)
    ELSE SplitLines(s, k + 1, Append(cur, s[k]))

\* str::lines: split at "\n" or "\r\n", the final line ending is optional
Lines(s) == SplitLines(s, 1, <<>>)

\* [String]::join(sep)
RECURSIVE Join(_, _)
Join(ls, sep) ==
    IF ls = <<>> THEN <<>>
    ELSE IF Len(ls) = 1 THEN ls[1]
    ELSE ls[1] \o sep \o Join(Tail(ls), sep)

RECURSIVE SplitWs(_, _, _)
SplitWs(s, k, cur) ==
    IF k > Len(s) THEN (IF cur = <<>> THEN <<>> ELSE <<cur>>)
    ELSE IF s[k] \in {SP, LF, CR, "\t"}
         THEN (IF cur = <<>> THEN <<>> ELSE <<cur>>) \o SplitWs(s, k + 1, <<>>)
    ELSE SplitWs(s, k + 1, Append(cur, s[k]))

\* str::split_whitespace: the non-empty runs of non-whitespace characters
SplitWhitespace(s) == SplitWs(s, 1, <<>>)

\* str::trim_start_matches(c): drop every leading c
RECURSIVE TrimStartMatches(_, _)
TrimStartMatches(s, c) ==
    IF s # <<>> /\ s[1] = c THEN TrimStartMatches(Tail(s), c) ELSE s

RECURSIVE SplitAt(_, _, _, _)
SplitAt(s, c, k, cur) ==
    IF k > Len(s) THEN <<cur>>
    ELSE IF s[k] = c THEN <<cur>> \o SplitAt(s, c, k + 1, <<>>)
    ELSE SplitAt(s, c, k + 1, Append(cur, s[k]))

\* str::split(c): always at least one piece, empty pieces kept
SplitChar(s, c) == SplitAt(s, c, 1, <<>>)

Digits == {"0", "1", "2", "3", "4", "5", "6", "7", "8", "9"}

DigitVal(c) ==
    CASE c = "0" -> 0 [] c = "1" -> 1 [] c = "2" -> 2 [] c = "3" -> 3
      [] c = "4" -> 4 [] c = "5" -> 5 [] c = "6" -> 6 [] c = "7" -> 7
      [] c = "8" -> 8 [] c = "9" -> 9

RECURSIVE DigitsVal(_, _)
DigitsVal(s, acc) ==
    IF s = <<>> THEN acc ELSE DigitsVal(Tail(s), acc * 10 + DigitVal(s[1]))

\* str::parse::<usize>: an optional '+', then one or more decimal digits
\* (the numerals of the checked inputs are far below usize::MAX)
ParseUsize(s) ==
    LET body == IF s # <<>> /\ s[1] = "+" THEN Tail(s) ELSE s
    IN  IF body = <<>> \/ \E k \in 1..Len(body) : body[k] \notin Digits
        THEN None
        ELSE Some(DigitsVal(body, 0))

\* old_parts.get(1).and_then(|s| s.parse::<usize>().ok()).unwrap_or(1)
ParseCount(parts) ==
    IF Len(parts) >= 2 /\ ParseUsize(parts[2]) # None THEN ParseUsize(parts[2])[1] ELSE 1

\* parse_hunk_header: Some((old_start, old_count, new_start, new_count)) or None
parse_hunk_header(line) ==
    LET parts == SplitWhitespace(line)
    IN  IF Len(parts) < 3 THEN None
        ELSE LET old_parts == SplitChar(TrimStartMatches(parts[2], "-"), ",")
                 new_parts == SplitChar(TrimStartMatches(parts[3], "+"), ",")
                 old_start == ParseUsize(old_parts[1])
                 new_start == ParseUsize(new_parts[1])
             IN  IF old_start = None \/ new_start = None THEN None
                 ELSE Some(<<old_start[1], ParseCount(old_parts),
                             new_start[1], ParseCount(new_parts)>>)

\* ------------------------------------------------------------------------
\* The replay loop body of tool_apply_diff (one diff line)
\* ------------------------------------------------------------------------
\* A replay state is [lines, cur, added, removed, panicked]: original_lines,
\* current_line, lines_added, lines_removed, and whether the thread panicked.

\* Vec::remove(index), index 0-based and in range
VecRemove(v, index) == SubSeq(v, 1, index) \o SubSeq(v, index + 2, Len(v))

\* Vec::insert(index, x), index 0-based and index <= len
VecInsert(v, index, x) == SubSeq(v, 1, index) \o <<x>> \o SubSeq(v, index + 1, Len(v))

\* current_line = hunk_info.0 - 1 on usize.  For old_start = 0 the
\* subtraction overflows: a build with overflow checks panics, a build
\* without them wraps to usize::MAX.
HunkSeek(st, old_start) ==
    IF old_start = 0
    THEN {[st EXCEPT !.panicked = TRUE], [st EXCEPT !.cur = UsizeMax]}
    ELSE {[st EXCEPT !.cur = old_start - 1]}

\* RemoveLine with the cursor advanced past the removed line
RemoveLine_Advances(st) ==
    IF st.cur < Len(st.lines)
    THEN [st EXCEPT !.lines = VecRemove(st.lines, st.cur), !.removed = st.removed + 1,
                    !.cur = st.cur + 1]
    ELSE st

\* RemoveLine with lines_removed incremented outside the bounds check
RemoveLine_CountsSkipped(st) ==
    IF st.cur < Len(st.lines)
    THEN [st EXCEPT !.lines = VecRemove(st.lines, st.cur), !.removed = st.removed + 1]
    ELSE [st EXCEPT !.removed = st.removed + 1]

\* the "-" branch: remove the line at the cursor if there is one
RemoveLine(st) ==
    IF st.cur < Len(st.lines)
    THEN [st EXCEPT !.lines = VecRemove(st.lines, st.cur), !.removed = st.removed + 1]
    ELSE st

\* InsertLine without lines_added += 1
InsertLine_Uncounted(st, new_line) ==
    IF st.cur > Len(st.lines)
    THEN [st EXCEPT !.panicked = TRUE]
    ELSE [st EXCEPT !.lines = VecInsert(st.lines, st.cur, new_line),
                    !.cur = st.cur + 1]

\* InsertLine overwriting the line at the cursor instead of inserting
InsertLine_Replaces(st, new_line) ==
    IF st.cur > Len(st.lines)
    THEN [st EXCEPT !.panicked = TRUE]
    ELSE [st EXCEPT !.lines = IF st.cur < Len(st.lines)
                              THEN [st.lines EXCEPT ![st.cur + 1] = new_line]
                              ELSE Append(st.lines, new_line),
                    !.added = st.added + 1,
                    !.cur = st.cur + 1]

\* the "+" branch: Vec::insert panics when index > len
InsertLine(st, new_line) ==
    IF st.cur > Len(st.lines)
    THEN [st EXCEPT !.panicked = TRUE]
    ELSE [st EXCEPT !.lines = VecInsert(st.lines, st.cur, new_line),
                    !.added = st.added + 1,
                    !.cur = st.cur + 1]

\* the " " branch: current_line += 1.  The cursor equals usize::MAX only
\* after HunkSeek wrapped, that is in a build without overflow checks,
\* where this addition wraps to 0.
ContextLine(st) ==
    [st EXCEPT !.cur = IF st.cur = UsizeMax THEN 0 ELSE st.cur + 1]

IsHunkMarker(line) == StartsWith(line, <<"@", "@">>)
IsDeletion(line) == StartsWith(line, <<"-">>) /\ ~StartsWith(line, <<"-", "-", "-">>)
IsAddition(line) == StartsWith(line, <<"+">>) /\ ~StartsWith(line, <<"+", "+", "+">>)
IsContext(line) == StartsWith(line, <<SP>>)
IsFileHeader(line) ==
    StartsWith(line, <<"-", "-", "-">>) \/ StartsWith(line, <<"+", "+", "+">>)

\* ReplayLine with a rejected header resetting the cursor to 0
ReplayLine_ResetOnReject(st, line) ==
    IF IsHunkMarker(line)
    THEN LET hunk_info == parse_hunk_header(line)
         IN  IF hunk_info # None THEN HunkSeek(st, hunk_info[1][1])
             ELSE {[st EXCEPT !.cur = 0]}
    ELSE IF IsDeletion(line) THEN {RemoveLine(st)}
    ELSE IF IsAddition(line) THEN {InsertLine(st, Tail(line))}
    ELSE IF IsContext(line) THEN {ContextLine(st)}
    ELSE {st}

\* ReplayLine with a deletion applied only when its text equals the line
\* at the cursor
ReplayLine_ChecksDeletion(st, line) ==
    IF IsHunkMarker(line)
    THEN LET hunk_info == parse_hunk_header(line)
         IN  IF hunk_info # None THEN HunkSeek(st, hunk_info[1][1]) ELSE {st}
    ELSE IF IsDeletion(line)
         THEN (IF st.cur < Len(st.lines) /\ st.lines[st.cur + 1] = Tail(line)
               THEN {RemoveLine(st)} ELSE {st})
    ELSE IF IsAddition(line) THEN {InsertLine(st, Tail(line))}
    ELSE IF IsContext(line) THEN {ContextLine(st)}
    ELSE {st}

\* the set of states one pass of the loop body can produce
ReplayLine(st, line) ==
    IF IsHunkMarker(line)
    THEN LET hunk_info == parse_hunk_header(line)
         IN  IF hunk_info # None THEN HunkSeek(st, hunk_info[1][1]) ELSE {st}
    ELSE IF IsDeletion(line) THEN {RemoveLine(st)}
    ELSE IF IsAddition(line) THEN {InsertLine(st, Tail(line))}
    ELSE IF IsContext(line) THEN {ContextLine(st)}
    ELSE {st}

\* ------------------------------------------------------------------------
\* Inputs
\* ------------------------------------------------------------------------
\* all sequences over S of length at most n
SeqsUpTo(S, n) == UNION {[1..k -> S] : k \in 0..n}

RECURSIVE DecDigits(_)
DecDigits(n) ==
    LET d == CHOOSE c \in Digits : DigitVal(c) = n % 10
    IN  IF n < 10 THEN <<d>> ELSE Append(DecDigits(n \div 10), d)

\* the text "@@ -os,oc +ns,nc @@"
HeaderText(os, oc, ns, nc) ==
    <<"@", "@", SP, "-">> \o DecDigits(os) \o <<",">> \o DecDigits(oc)
        \o <<SP, "+">> \o DecDigits(ns) \o <<",">> \o DecDigits(nc) \o <<SP, "@", "@">>

FileChars == {"a", LF}
Contents == SeqsUpTo(FileChars, MaxContentLen)

GarbageHeader == <<"@", "@", SP, "g", "a", "r", "b", "a", "g", "e", SP, "@", "@">>
ShortHeader == <<"@", "@", SP, "-", "1">>
BadNewStart == <<"@", "@", SP, "-", "1", SP, "+", "x", SP, "@", "@">>
NoCountHeader == <<"@", "@", SP, "-", "2", SP, "+", "2", SP, "@", "@">>

DiffLineUniverse ==
    { NoCountHeader, HeaderText(0, 0, 1, 1), GarbageHeader,
      <<"-", "a">>, <<"+", "b">>, <<SP, "a">>,
      <<"-", "-", "-", SP, "a">>, <<"+", "+", "+", SP, "b">>,
      <<>> }

\* payloads around the other headers: one far past the end of the file,
\* one of fewer than three tokens, one whose new start is not a number
EdgePayloads ==
    {Join(<<h, l>>, <<LF>>) :
        h \in {HeaderText(9, 1, 9, 0), ShortHeader, BadNewStart},
        l \in {<<"-", "a">>, <<"+", "b">>, <<SP, "a">>}}
    \cup {Join(<<NoCountHeader, h, <<"+", "b">>>>, <<LF>>) : h \in {ShortHeader, BadNewStart}}

Payloads ==
    {Join(ds, <<LF>>) : ds \in SeqsUpTo(DiffLineUniverse, MaxDiffLines)} \cup EdgePayloads

\* ------------------------------------------------------------------------
\* State
\* ------------------------------------------------------------------------
Procs == {1, 2}

VARIABLES
    fs,               \* the stored file at `path`: None or Some(content)
    diff_content,     \* [p]: the diff_content argument of invocation p
    pc,               \* [p]: position of invocation p in tool_apply_diff
    original_content, \* [p]: the text read from the file
    original_lines,   \* [p]: the line sequence being patched
    diff_lines,       \* [p]: diff_content.lines()
    i,                \* [p]: index of the next diff line (0-based)
    current_line,     \* [p]: the cursor (0-based)
    lines_added,      \* [p]
    lines_removed,    \* [p]
    result,           \* [p]: what the invocation returned
    serialize,        \* whether the host runs invocations on a path one at a time
    lock,             \* the host's per-path critical section: None or Some(p)
    log,              \* the fs::write calls issued, in order: [proc, ok]
    script            \* [A, hunks]: the lines and edit script a structured payload was printed from

vars == <<fs, diff_content, pc, original_content, original_lines, diff_lines, i,
          current_line, lines_added, lines_removed, result, serialize, lock, log, script>>

locals == <<original_content, original_lines, diff_lines, i,
            current_line, lines_added, lines_removed>>

NoResult == [tag |-> "None", success |-> FALSE, message |-> "",
             lines_changed |-> 0, lines_added |-> 0, lines_removed |-> 0]

ErrResult(msg) == [NoResult EXCEPT !.tag = "Err", !.message = msg]

\* ApplyDiffResult { success: true, message, lines_changed, lines_added, lines_removed }
OkResult(added, removed) ==
    [tag |-> "Ok", success |-> TRUE, message |-> "Successfully applied diff",
     lines_changed |-> added + removed, lines_added |-> added, lines_removed |-> removed]

InitLocals ==
    /\ original_content = [p \in Procs |-> <<>>]
    /\ original_lines = [p \in Procs |-> <<>>]
    /\ diff_lines = [p \in Procs |-> <<>>]
    /\ i = [p \in Procs |-> 0]
    /\ current_line = [p \in Procs |-> 0]
    /\ lines_added = [p \in Procs |-> 0]
    /\ lines_removed = [p \in Procs |-> 0]
    /\ result = [p \in Procs |-> NoResult]
    /\ lock = None
    /\ log = <<>>

NoScript == [A |-> <<>>, hunks |-> <<>>]

\* one invocation, any stored file (or none), any payload
Init ==
    /\ fs \in {None} \cup {Some(c) : c \in Contents}
    /\ \E d \in Payloads : diff_content = [p \in Procs |-> IF p = 1 THEN d ELSE <<>>]
    /\ pc = [p \in Procs |-> IF p = 1 THEN "start" ELSE "unused"]
    /\ serialize = FALSE
    /\ script = NoScript
    /\ InitLocals

\* ------------------------------------------------------------------------
\* tool_apply_diff, one action per atomic step
\* ------------------------------------------------------------------------
\* if !file_path.exists() { return Err(..) }
NotFound(p) ==
    /\ pc[p] = "start"
    /\ fs = None
    /\ result' = [result EXCEPT ![p] = ErrResult("File does not exist")]
    /\ pc' = [pc EXCEPT ![p] = "err"]
    /\ UNCHANGED <<fs, diff_content, locals, serialize, lock, log, script>>

\* fs::read_to_string fails (unreadable, or not valid UTF-8)
ReadFail(p) ==
    /\ pc[p] = "start"
    /\ fs # None
    /\ result' = [result EXCEPT ![p] = ErrResult("Failed to read file")]
    /\ pc' = [pc EXCEPT ![p] = "err"]
    /\ UNCHANGED <<fs, diff_content, locals, serialize, lock, log, script>>

\* read the file, split both texts into lines, initialise the counters
Read(p) ==
    /\ pc[p] = "start"
    /\ fs # None
    /\ original_content' = [original_content EXCEPT ![p] = fs[1]]
    /\ original_lines' = [original_lines EXCEPT ![p] = Lines(fs[1])]
    /\ diff_lines' = [diff_lines EXCEPT ![p] = Lines(diff_content[p])]
    /\ lines_added' = [lines_added EXCEPT ![p] = 0]
    /\ lines_removed' = [lines_removed EXCEPT ![p] = 0]
    /\ current_line' = [current_line EXCEPT ![p] = 0]
    /\ i' = [i EXCEPT ![p] = 0]
    /\ pc' = [pc EXCEPT ![p] = "replay"]
    /\ UNCHANGED <<fs, diff_content, result, serialize, lock, log, script>>

ReplayState(p) ==
    [lines |-> original_lines[p], cur |-> current_line[p],
     added |-> lines_added[p], removed |-> lines_removed[p], panicked |-> FALSE]

\* one iteration of `while i < diff_lines.len()`
ReplayStep(p) ==
    /\ pc[p] = "replay"
    /\ i[p] < Len(diff_lines[p])
    /\ \E out \in ReplayLine(ReplayState(p), diff_lines[p][i[p] + 1]) :
         IF out.panicked
         THEN /\ pc' = [pc EXCEPT ![p] = "panic"]
              /\ UNCHANGED <<original_lines, current_line, lines_added, lines_removed, i>>
         ELSE /\ original_lines' = [original_lines EXCEPT ![p] = out.lines]
              /\ current_line' = [current_line EXCEPT ![p] = out.cur]
              /\ lines_added' = [lines_added EXCEPT ![p] = out.added]
              /\ lines_removed' = [lines_removed EXCEPT ![p] = out.removed]
              /\ i' = [i EXCEPT ![p] = i[p] + 1]
              /\ pc' = pc
    /\ UNCHANGED <<fs, diff_content, original_content, diff_lines, result,
                   serialize, lock, log, script>>

\* let new_content = original_lines.join("\n")
NewContent(lines) == Join(lines, <<LF>>)

\* Write storing the text that was read instead of the patched text
Write_Stale(p) ==
    /\ pc[p] = "replay"
    /\ i[p] >= Len(diff_lines[p])
    /\ fs' = Some(original_content[p])
    /\ log' = Append(log, [proc |-> p, ok |-> TRUE])
    /\ result' = [result EXCEPT ![p] = OkResult(lines_added[p], lines_removed[p])]
    /\ pc' = [pc EXCEPT ![p] = "ok"]
    /\ UNCHANGED <<diff_content, locals, serialize, lock, script>>

\* fs::write succeeds, Ok(ApplyDiffResult { .. }) is returned
Write(p) ==
    /\ pc[p] = "replay"
    /\ i[p] >= Len(diff_lines[p])
    /\ fs' = Some(NewContent(original_lines[p]))
    /\ log' = Append(log, [proc |-> p, ok |-> TRUE])
    /\ result' = [result EXCEPT ![p] = OkResult(lines_added[p], lines_removed[p])]
    /\ pc' = [pc EXCEPT ![p] = "ok"]
    /\ UNCHANGED <<diff_content, locals, serialize, lock, script>>

\* WriteFail with the error of fs::write dropped and success returned
WriteFail_Ignored(p) ==
    /\ pc[p] = "replay"
    /\ i[p] >= Len(diff_lines[p])
    /\ \/ fs' = fs
       \/ \E k \in 0..(Len(NewContent(original_lines[p])) - 1) :
            fs' = Some(SubSeq(NewContent(original_lines[p]), 1, k))
    /\ log' = Append(log, [proc |-> p, ok |-> FALSE])
    /\ result' = [result EXCEPT ![p] = OkResult(lines_added[p], lines_removed[p])]
    /\ pc' = [pc EXCEPT ![p] = "ok"]
    /\ UNCHANGED <<diff_content, locals, serialize, lock, script>>

\* fs::write fails: the file could not be opened (content kept) or the
\* write stopped after truncation (a proper prefix of the new content)
WriteFail(p) ==
    /\ pc[p] = "replay"
    /\ i[p] >= Len(diff_lines[p])
    /\ \/ fs' = fs
       \/ \E k \in 0..(Len(NewContent(original_lines[p])) - 1) :
            fs' = Some(SubSeq(NewContent(original_lines[p]), 1, k))
    /\ log' = Append(log, [proc |-> p, ok |-> FALSE])
    /\ result' = [result EXCEPT ![p] = ErrResult("Failed to write file")]
    /\ pc' = [pc EXCEPT ![p] = "err"]
    /\ UNCHANGED <<diff_content, locals, serialize, lock, script>>

Next ==
    \E p \in Procs :
        \/ NotFound(p)
        \/ ReadFail(p)
        \/ Read(p)
        \/ ReplayStep(p)
        \/ Write(p)
        \/ WriteFail(p)

Spec == Init /\ [][Next]_vars

\* ------------------------------------------------------------------------
\* Structured payloads: a unified diff printed from an edit script
\* ------------------------------------------------------------------------
\* An edit script is a sequence of hunks [pos, ops]: pos is the number of
\* lines of A before the hunk, ops a sequence over "ctx", "del", "add".
LineTexts == {<<"a">>, <<"b">>}
AddedText == <<"x">>
OpKinds == {"ctx", "del", "add"}
OldFileHeader == <<"-", "-", "-", SP, "a">>
NewFileHeader == <<"+", "+", "+", SP, "b">>

RECURSIVE CountOps(_, _)
CountOps(ops, kinds) ==
    IF ops = <<>> THEN 0
    ELSE (IF ops[1] \in kinds THEN 1 ELSE 0) + CountOps(Tail(ops), kinds)

OldCount(h) == CountOps(h.ops, {"ctx", "del"})
NewCount(h) == CountOps(h.ops, {"ctx", "add"})

\* the hunk's lines as printed, j counting the lines of A consumed so far
RECURSIVE HunkBody(_, _, _)
HunkBody(A, ops, j) ==
    IF ops = <<>> THEN <<>>
    ELSE IF ops[1] = "ctx" THEN <<<<SP>> \o A[j + 1]>> \o HunkBody(A, Tail(ops), j + 1)
    ELSE IF ops[1] = "del" THEN <<<<"-">> \o A[j + 1]>> \o HunkBody(A, Tail(ops), j + 1)
    ELSE <<<<"+">> \o AddedText>> \o HunkBody(A, Tail(ops), j)

\* a range of n lines after `before` lines starts at before + 1, an empty
\* range is numbered by the line that precedes it
RangeStart(before, n) == IF n = 0 THEN before ELSE before + 1

RECURSIVE PrintHunks(_, _, _)
PrintHunks(A, hunks, offset) ==
    IF hunks = <<>> THEN <<>>
    ELSE LET h == hunks[1]
         IN  <<HeaderText(RangeStart(h.pos, OldCount(h)), OldCount(h),
                          RangeStart(h.pos + offset, NewCount(h)), NewCount(h))>>
             \o HunkBody(A, h.ops, h.pos)
             \o PrintHunks(A, Tail(hunks), offset + NewCount(h) - OldCount(h))

PrintDiff(A, hunks) ==
    Join(<<OldFileHeader, NewFileHeader>> \o PrintHunks(A, hunks, 0), <<LF>>)

\* hunks in ascending order, not overlapping, inside A, each changing something
RECURSIVE WellFormed(_, _, _)
WellFormed(A, hunks, from) ==
    IF hunks = <<>> THEN TRUE
    ELSE /\ hunks[1].pos >= from
         /\ hunks[1].pos + OldCount(hunks[1]) <= Len(A)
         /\ CountOps(hunks[1].ops, {"del", "add"}) >= 1
         /\ WellFormed(A, Tail(hunks), hunks[1].pos + OldCount(hunks[1]) + 1)

\* the hunks of at most n operations, and the scripts of one or two hunks
\* of at most MaxOps operations in all
HunksUpTo(n) == [pos : 0..MaxFileLines, ops : SeqsUpTo(OpKinds, n) \ {<<>>}]
Scripts ==
    {<<h>> : h \in HunksUpTo(MaxOps)}
    \cup UNION {{<<h1, h2>> : h1 \in [pos : 0..MaxFileLines, ops : [1..n -> OpKinds]],
                              h2 \in HunksUpTo(MaxOps - n)} : n \in 1..(MaxOps - 1)}

\* one invocation, a file A (or none) and a well-formed diff of A
InitHunk ==
    /\ \E A \in SeqsUpTo(LineTexts, MaxFileLines) :
       \E sc \in Scripts :
         /\ WellFormed(A, sc, 0)
         /\ script = [A |-> A, hunks |-> sc]
         /\ fs \in {None, Some(Join(A, <<LF>>))}
         /\ diff_content = [p \in Procs |-> IF p = 1 THEN PrintDiff(A, sc) ELSE <<>>]
    /\ pc = [p \in Procs |-> IF p = 1 THEN "start" ELSE "unused"]
    /\ serialize = FALSE
    /\ InitLocals

SpecHunk == InitHunk /\ [][Next]_vars

\* ------------------------------------------------------------------------
\* Two invocations on the same path, dispatched by the host
\* ------------------------------------------------------------------------
AddAfterFirst == Join(<<HeaderText(1, 1, 1, 2), <<SP, "a">>, <<"+", "b">>>>, <<LF>>)
AddEmptyAfterFirst == Join(<<HeaderText(1, 1, 1, 2), <<SP, "a">>, <<"+">>>>, <<LF>>)
AddAtTop == Join(<<HeaderText(1, 0, 1, 1), <<"+", "b">>>>, <<LF>>)
DeleteFirst == Join(<<HeaderText(1, 1, 1, 0), <<"-", "a">>>>, <<LF>>)
HostPayloads == {AddAfterFirst, AddEmptyAfterFirst, AddAtTop, DeleteFirst}

InitHost ==
    /\ fs \in {None} \cup {Some(c) : c \in Contents}
    /\ diff_content \in [Procs -> HostPayloads]
    /\ pc = [p \in Procs |-> "queued"]
    /\ serialize \in BOOLEAN
    /\ script = NoScript
    /\ InitLocals

\* the host dispatches invocation p; when it serializes per path it first
\* enters the path's critical section
Invoke(p) ==
    /\ pc[p] = "queued"
    /\ serialize => lock = None
    /\ lock' = IF serialize THEN Some(p) ELSE lock
    /\ pc' = [pc EXCEPT ![p] = "start"]
    /\ UNCHANGED <<fs, diff_content, locals, result, serialize, log, script>>

\* the command has returned (or unwound) and the host leaves the critical section
Return(p) ==
    /\ pc[p] \in {"ok", "err", "panic"}
    /\ lock' = IF lock = Some(p) THEN None ELSE lock
    /\ pc' = [pc EXCEPT ![p] = "returned"]
    /\ UNCHANGED <<fs, diff_content, locals, result, serialize, log, script>>

NextHost ==
    \/ Next
    \/ \E p \in Procs : Invoke(p)
    \/ \E p \in Procs : Return(p)

SpecHost == InitHost /\ [][NextHost]_vars

\* the whole replay loop as a function: the states the loop can end in
\* when started in st at the k-th line of dls
RECURSIVE ReplayFrom(_, _, _)
ReplayFrom(st, dls, k) ==
    IF st.panicked \/ k > Len(dls) THEN {st}
    ELSE UNION {ReplayFrom(out, dls, k + 1) : out \in ReplayLine(st, dls[k])}

\* the line sequences a run on `content` with payload d can hand to the write
PatchedLines(content, d) ==
    {f.lines : f \in {g \in ReplayFrom([lines |-> Lines(content), cur |-> 0, added |-> 0,
                                        removed |-> 0, panicked |-> FALSE],
                                       Lines(d), 1) : ~g.panicked}}

\* ------------------------------------------------------------------------
\* Properties
\* ------------------------------------------------------------------------
\* invocation p takes a step
Stepped(p) == pc'[p] # pc[p] \/ i'[p] # i[p]

\* the diff line the next iteration of p's loop processes
CurrentDiffLine(p) == diff_lines[p][i[p] + 1]

AtLine(p) == pc[p] = "replay" /\ i[p] < Len(diff_lines[p])

\* this iteration of p leaves the line sequence, the cursor and the counters alone
InertStep(p) ==
    /\ pc'[p] = "replay"
    /\ i'[p] = i[p] + 1
    /\ original_lines'[p] = original_lines[p]
    /\ current_line'[p] = current_line[p]
    /\ lines_added'[p] = lines_added[p]
    /\ lines_removed'[p] = lines_removed[p]

\* every accepted hunk header of payload d has old_start >= 1
OldStartsPositive(d) ==
    \A k \in 1..Len(Lines(d)) :
        (IsHunkMarker(Lines(d)[k]) /\ parse_hunk_header(Lines(d)[k]) # None)
            => parse_hunk_header(Lines(d)[k])[1][1] >= 1

\* C1: with every hunk header's old_start >= 1, a deletion or addition
\* reached with the cursor outside 0..len is skipped and the run never aborts.
C1_OutOfRangeSkipped ==
    \A p \in Procs : OldStartsPositive(diff_content[p]) => pc[p] # "panic"

\* the lines a script's hunk puts in place of its old range
RECURSIVE NewSide(_, _, _)
NewSide(A, ops, j) ==
    IF ops = <<>> THEN <<>>
    ELSE IF ops[1] = "ctx" THEN <<A[j + 1]>> \o NewSide(A, Tail(ops), j + 1)
    ELSE IF ops[1] = "del" THEN NewSide(A, Tail(ops), j + 1)
    ELSE <<AddedText>> \o NewSide(A, Tail(ops), j)

\* the line sequence B a script describes: A with each hunk's old range
\* replaced by its new side, `from` lines of A being already copied
RECURSIVE Patched(_, _, _)
Patched(A, hunks, from) ==
    IF hunks = <<>> THEN SubSeq(A, from + 1, Len(A))
    ELSE SubSeq(A, from + 1, hunks[1].pos)
         \o NewSide(A, hunks[1].ops, hunks[1].pos)
         \o Patched(A, Tail(hunks), hunks[1].pos + OldCount(hunks[1]))

\* C2: applying a well-formed unified diff from A to B, of one or more
\* hunks, to A produces exactly B.
C2_DiffProducesB ==
    \A p \in Procs :
        (pc[p] = "ok" /\ script.hunks # <<>>)
            => original_lines[p] = Patched(script.A, script.hunks, 0)

\* payload d has no addition line and no deletion line
NoChangeLines(d) ==
    \A k \in 1..Len(Lines(d)) : ~IsAddition(Lines(d)[k]) /\ ~IsDeletion(Lines(d)[k])

\* C3: a payload without addition and deletion lines returns success with
\* all counters zero and writes back exactly the bytes that were read.
C3_NoChangeIsIdentity ==
    \A p \in Procs :
        (pc[p] = "ok" /\ NoChangeLines(diff_content[p]))
            => /\ result[p].success
               /\ result[p].lines_added = 0
               /\ result[p].lines_removed = 0
               /\ result[p].lines_changed = 0
               /\ fs = Some(original_content[p])

SingleHunk == Len(script.hunks) = 1

\* C4: a single hunk with old_count >= 1 whose context and deletion lines
\* cover A from old_start on never aborts and yields A with the deleted
\* lines removed and the added lines inserted in place, the counters being
\* the numbers of additions and deletions.
C4_SingleHunkApplied ==
    \A p \in Procs :
        (SingleHunk /\ OldCount(script.hunks[1]) >= 1)
            => /\ pc[p] # "panic"
               /\ pc[p] = "ok" =>
                    /\ original_lines[p] = Patched(script.A, script.hunks, 0)
                    /\ result[p].lines_added = CountOps(script.hunks[1].ops, {"add"})
                    /\ result[p].lines_removed = CountOps(script.hunks[1].ops, {"del"})
                    /\ result[p].lines_changed = CountOps(script.hunks[1].ops, {"add", "del"})

\* replacing line 2 of a 3-line file: context, -L2, +X, context
C4_Witness ==
    /\ pc[1] = "ok"
    /\ script.hunks = <<[pos |-> 0, ops |-> <<"ctx", "del", "add", "ctx">>]>>
    /\ script.A = <<<<"a">>, <<"b">>, <<"a">>>>
    /\ original_lines[1] = <<<<"a">>, <<"x">>, <<"a">>>>
    /\ result[1].lines_added = 1 /\ result[1].lines_removed = 1
    /\ result[1].lines_changed = 2

\* the number of lines of ls satisfying the line class P
RECURSIVE CountAdditions(_)
CountAdditions(ls) ==
    IF ls = <<>> THEN 0
    ELSE (IF IsAddition(ls[1]) THEN 1 ELSE 0) + CountAdditions(Tail(ls))

RECURSIVE CountDeletions(_)
CountDeletions(ls) ==
    IF ls = <<>> THEN 0
    ELSE (IF IsDeletion(ls[1]) THEN 1 ELSE 0) + CountDeletions(Tail(ls))

\* C5: for a valid single-hunk diff applied to the file it matches, the
\* returned lines_added and lines_removed are the numbers of "+" (not "+++")
\* and "-" (not "---") payload lines, and lines_changed is their sum.
C5_CountersMatchPayload ==
    \A p \in Procs :
        (SingleHunk /\ pc[p] = "ok")
            => /\ result[p].lines_added = CountAdditions(Lines(diff_content[p]))
               /\ result[p].lines_removed = CountDeletions(Lines(diff_content[p]))
               /\ result[p].lines_changed = result[p].lines_added + result[p].lines_removed

C5_Witness ==
    /\ pc[1] = "ok"
    /\ SingleHunk
    /\ result[1].lines_added = 2
    /\ result[1].lines_removed = 1
    /\ result[1].lines_changed = 3

\* C6: a deletion line processed with the cursor at or beyond the length of
\* the line sequence removes nothing, leaves the sequence, the cursor and
\* lines_removed unchanged, and the loop goes on to the next line.
C6_DeletionPastEndSkipped ==
    [][\A p \in Procs :
         (AtLine(p) /\ Stepped(p) /\ IsDeletion(CurrentDiffLine(p))
            /\ current_line[p] >= Len(original_lines[p]))
         => InertStep(p)]_vars

\* after "@@ -2 +2 @@" and a context line a deletion was processed on a
\* one-line file, the cursor being past its end
C6_Witness ==
    /\ pc[1] = "replay"
    /\ i[1] = 3
    /\ diff_lines[1][1] = NoCountHeader
    /\ IsContext(diff_lines[1][2])
    /\ IsDeletion(diff_lines[1][3])
    /\ Len(original_lines[1]) = 1
    /\ current_line[1] = 2
    /\ lines_removed[1] = 0

\* C7: a "@@" line the header parser rejects leaves the cursor, the line
\* sequence and the counters unchanged and the loop goes on to the next
\* line; with nothing but rejected markers processed the cursor is still 0.
C7_RejectedMarkerInert ==
    /\ [][\A p \in Procs :
            (AtLine(p) /\ Stepped(p) /\ IsHunkMarker(CurrentDiffLine(p))
               /\ parse_hunk_header(CurrentDiffLine(p)) = None)
            => InertStep(p)]_vars
    /\ [](\A p \in Procs :
            (pc[p] = "replay"
               /\ \A k \in 1..i[p] : /\ IsHunkMarker(diff_lines[p][k])
                                     /\ parse_hunk_header(diff_lines[p][k]) = None)
            => current_line[p] = 0)

\* "@@ -2 +2 @@", "@@ garbage @@", "+b": the addition lands at the cursor
\* the accepted header set
C7_Witness ==
    /\ pc[1] = "replay"
    /\ i[1] = 3
    /\ diff_lines[1] = <<NoCountHeader, GarbageHeader, <<"+", "b">>>>
    /\ current_line[1] = 2
    /\ lines_added[1] = 1
    /\ original_lines[1][2] = <<"b">>

ReadErrors == {"File does not exist", "Failed to read file"}

\* C9: success is returned only after the read and the write both
\* succeeded; a missing or unreadable file gives an error with no line
\* replayed, no write issued and the stored content unchanged; a failed
\* write gives an error.
C9_SuccessOnlyAfterReadAndWrite ==
    /\ [](\A p \in Procs :
            /\ result[p].success =>
                 /\ pc[p] = "ok"
                 /\ i[p] = Len(diff_lines[p])
                 /\ \E k \in 1..Len(log) : log[k] = [proc |-> p, ok |-> TRUE]
            /\ (\E k \in 1..Len(log) : log[k] = [proc |-> p, ok |-> FALSE]) =>
                 result[p].tag = "Err" /\ ~result[p].success
            /\ result[p].message \in ReadErrors =>
                 /\ result[p].tag = "Err"
                 /\ i[p] = 0 /\ lines_added[p] = 0 /\ lines_removed[p] = 0
                 /\ original_lines[p] = <<>>
                 /\ \A k \in 1..Len(log) : log[k].proc # p)
    /\ [][/\ fs' # fs => Len(log') = Len(log) + 1
          /\ \A p \in Procs :
               (pc[p] = "start" /\ fs = None /\ Stepped(p))
                   => pc'[p] = "err" /\ result'[p].message \in ReadErrors]_vars

\* a run that replayed an addition and whose write then failed
C9_Witness ==
    /\ pc[1] = "err"
    /\ result[1].message = "Failed to write file"
    /\ lines_added[1] >= 1
    /\ log = <<[proc |-> 1, ok |-> FALSE]>>

BothOk == result[1].tag = "Ok" /\ result[2].tag = "Ok"

\* payload d has at least one addition line and no deletion line
AdditionOnly(d) ==
    CountAdditions(Lines(d)) >= 1 /\ CountDeletions(Lines(d)) = 0

\* C8: applying the same addition-only diff of k additions a second time,
\* to the result of the first application, inserts the k lines again: the
\* second result has k lines more than the first and 2k more than the
\* original, and each application reports lines_added = k.
C8_SecondApplicationInsertsAgain ==
    (serialize /\ BothOk /\ diff_content[1] = diff_content[2]
       /\ AdditionOnly(diff_content[1]))
    => LET k == CountAdditions(Lines(diff_content[1]))
           first == log[1].proc
           second == log[2].proc
       IN  /\ Len(original_lines[second]) = Len(original_lines[first]) + k
           /\ Len(original_lines[second]) = Len(Lines(original_content[first])) + 2 * k
           /\ result[first].lines_added = k
           /\ result[second].lines_added = k

\* the content left by applying payload d to content c, then payload e
ThenApplied(c, d, e) ==
    UNION {{NewContent(l2) : l2 \in PatchedLines(NewContent(l1), e)} : l1 \in PatchedLines(c, d)}

\* C10: when both invocations succeed, under per-path serialization the
\* stored content is the result of applying one diff and then the other;
\* without it, when both read the same content, the stored content is the
\* result of applying the last writer's diff alone to that content.
C10_LostUpdateUnlessSerialized ==
    BothOk =>
        LET first == log[1].proc
            second == log[2].proc
        IN  IF serialize
            THEN fs[1] \in ThenApplied(original_content[first],
                                       diff_content[first], diff_content[second])
            ELSE original_content[first] = original_content[second]
                   => fs[1] \in {NewContent(l) :
                                   l \in PatchedLines(original_content[first],
                                                      diff_content[second])}

\* both succeeded unserialized and the stored content is neither diff
\* applied after the other: one update is lost
C10_Witness ==
    /\ ~serialize
    /\ BothOk
    /\ original_content[1] = original_content[2]
    /\ fs[1] \notin ThenApplied(original_content[1], diff_content[1], diff_content[2])
    /\ fs[1] \notin ThenApplied(original_content[1], diff_content[2], diff_content[1])

\* the classes of diff lines that are neither marker, deletion, addition nor context
IsOtherLine(line) ==
    /\ ~IsHunkMarker(line) /\ ~IsDeletion(line) /\ ~IsAddition(line)
    /\ ~IsContext(line) /\ ~IsFileHeader(line)

AcceptedMarker(line) == IsHunkMarker(line) /\ parse_hunk_header(line) # None
RejectedMarker(line) == IsHunkMarker(line) /\ parse_hunk_header(line) = None

\* this iteration of p leaves the line sequence and both counters alone
FrameStep(p) ==
    /\ original_lines'[p] = original_lines[p]
    /\ lines_added'[p] = lines_added[p]
    /\ lines_removed'[p] = lines_removed[p]

\* C11: an accepted hunk marker sets the cursor to old_start - 1 whatever
\* it was; a context line and an applied addition increase it by exactly 1;
\* a deletion, a file-header line, a rejected marker and any other line
\* leave it unchanged; context, file-header and other lines also leave the
\* line sequence and both counters unchanged.
C11_CursorRules ==
    [][\A p \in Procs :
         (AtLine(p) /\ Stepped(p)) =>
            LET line == CurrentDiffLine(p)
            IN  /\ AcceptedMarker(line) =>
                     current_line'[p] = parse_hunk_header(line)[1][1] - 1
                /\ IsContext(line) =>
                     current_line'[p] = current_line[p] + 1
                /\ (IsAddition(line) /\ lines_added'[p] = lines_added[p] + 1) =>
                     current_line'[p] = current_line[p] + 1
                /\ (IsDeletion(line) \/ IsFileHeader(line) \/ RejectedMarker(line)
                      \/ IsOtherLine(line)) =>
                     current_line'[p] = current_line[p]
                /\ (IsContext(line) \/ IsFileHeader(line) \/ IsOtherLine(line)) =>
                     FrameStep(p)]_vars

\* payload d opens with an accepted header whose old_start is 0 and
\* continues with addition lines only
ZeroStartThenAdditions(d) ==
    /\ Len(Lines(d)) >= 2
    /\ AcceptedMarker(Lines(d)[1])
    /\ parse_hunk_header(Lines(d)[1])[1][1] = 0
    /\ \A k \in 2..Len(Lines(d)) : IsAddition(Lines(d)[k])

\* C12: a header "@@ -0,.. +.. @@" is accepted, the cursor seeded from it
\* stays within 0..len of the line sequence, and a run of such a header
\* followed by additions applies them and completes instead of aborting.
C12_ZeroStartSafe ==
    \A p \in Procs :
        /\ parse_hunk_header(HeaderText(0, 0, 1, 2)) = Some(<<0, 0, 1, 2>>)
        /\ (pc[p] = "replay" /\ i[p] >= 1 /\ AcceptedMarker(diff_lines[p][i[p]])
              /\ parse_hunk_header(diff_lines[p][i[p]])[1][1] = 0)
           => current_line[p] \in 0..Len(original_lines[p])
        /\ ZeroStartThenAdditions(diff_content[p]) => pc[p] # "panic"
        /\ (ZeroStartThenAdditions(diff_content[p]) /\ pc[p] = "ok")
           => result[p].lines_added = Len(Lines(diff_content[p])) - 1

\* the lines ls with the text of every deletion line replaced by t
RECURSIVE RetextLines(_, _)
RetextLines(ls, t) ==
    IF ls = <<>> THEN <<>>
    ELSE <<IF IsDeletion(ls[1]) THEN <<"-">> \o t ELSE ls[1]>> \o RetextLines(Tail(ls), t)

\* payload d with the text of every deletion line replaced by t
Retext(d, t) == Join(RetextLines(Lines(d), t), <<LF>>)

\* texts that keep a "-" line a deletion line
AltTexts == {<<>>, <<"b">>, <<"-">>}

\* the states a run on `content` with payload d can end its loop in
ReplayRuns(content, d) ==
    ReplayFrom([lines |-> Lines(content), cur |-> 0, added |-> 0,
                removed |-> 0, panicked |-> FALSE], Lines(d), 1)

\* C13: a run on a payload with deletion lines ends exactly as a run on the
\* payload with every deletion's text replaced does (same line sequence,
\* same counters, same abort), and a deletion applied at cursor c removes
\* the line at index c whatever its text.
C13_DeletionTextIgnored ==
    /\ [](\A p \in Procs : \A t \in AltTexts :
            (pc[p] \in {"ok", "panic"} /\ CountDeletions(diff_lines[p]) >= 1) =>
               \E f \in ReplayRuns(original_content[p], Retext(diff_content[p], t)) :
                   IF pc[p] = "panic" THEN f.panicked
                   ELSE /\ ~f.panicked
                        /\ f.lines = original_lines[p]
                        /\ f.added = result[p].lines_added
                        /\ f.removed = result[p].lines_removed)
    /\ [][\A p \in Procs :
            (AtLine(p) /\ Stepped(p) /\ IsDeletion(CurrentDiffLine(p))
               /\ current_line[p] < Len(original_lines[p]))
            => /\ Len(original_lines'[p]) = Len(original_lines[p]) - 1
               /\ \A j \in 1..Len(original_lines'[p]) :
                    original_lines'[p][j] =
                        original_lines[p][IF j <= current_line[p] THEN j ELSE j + 1]
               /\ lines_removed'[p] = lines_removed[p] + 1
               /\ current_line'[p] = current_line[p]]_vars

\* "-a" removed the only line of the file, an empty line
C13_Witness ==
    /\ pc[1] = "ok"
    /\ diff_lines[1] = <<<<"-", "a">>>>
    /\ Lines(original_content[1]) = <<<<>>>>
    /\ original_lines[1] = <<>>
    /\ result[1].lines_removed = 1

\* the diff lines invocation p has processed so far
SeenLines(p) == SubSeq(diff_lines[p], 1, i[p])

\* C14: after every processed diff line the line sequence has
\* len(original) + lines_added - lines_removed lines, lines_added is at most
\* the number of addition lines seen so far, lines_removed at most the
\* number of deletion lines seen so far, and neither counter ever decreases.
C14_LineCountConservation ==
    /\ [](\A p \in Procs :
            pc[p] \in {"replay", "ok"} =>
               /\ Len(original_lines[p])
                    = Len(Lines(original_content[p])) + lines_added[p] - lines_removed[p]
               /\ lines_added[p] <= CountAdditions(SeenLines(p))
               /\ lines_removed[p] <= CountDeletions(SeenLines(p)))
    /\ [][\A p \in Procs :
            /\ lines_added'[p] >= lines_added[p]
            /\ lines_removed'[p] >= lines_removed[p]]_vars

\* a completed run with one addition, one applied and one skipped deletion
C14_Witness ==
    /\ pc[1] = "ok"
    /\ result[1].lines_added = 1
    /\ result[1].lines_removed = 1
    /\ CountDeletions(diff_lines[1]) = 2
    /\ Len(original_lines[1]) = Len(Lines(original_content[1]))
====
